---- MODULE Spec2Model ----
(***************************************************************************)
(* A model of the paper-readings scripts:                                  *)
(*   scripts/build_readme.py     today_in_tz, make_calendar_heatmap,       *)
(*                               custom_cmap, render_table_md,             *)
(*                               make_recent_list_md, update_readme, main  *)
(*   scripts/validate_papers.py  main                                      *)
(* Text is modelled by TLA+ strings (Len, SubSeq and \o act on them as on  *)
(* Python str), a datetime.date by its proleptic Gregorian ordinal         *)
(* (date.toordinal()), a dict by a function on the keys it holds.          *)
(***************************************************************************)
EXTENDS Integers, Sequences, FiniteSets, TLC

VARIABLES
    pc,             \* position of the running script
    env,            \* os.environ restricted to PAPERS_TZ and TZ
    zoneinfo,       \* ZoneInfo is not None (import at lines 22-25 succeeded)
    now,            \* the instant of the run: UTC day, UTC hour, local offset
    papers,         \* load_papers(): the list of entries
    today,          \* make_calendar_heatmap: today
    start,          \* make_calendar_heatmap: start
    per_day,        \* make_calendar_heatmap: per_day (defaultdict(int))
    grid_start,     \* make_calendar_heatmap: grid_start
    data,           \* make_calendar_heatmap: data[dow, w]
    in_range_mask,  \* make_calendar_heatmap: in_range_mask[dow, w]
    week_starts,    \* make_calendar_heatmap: week_starts
    n_papers,       \* make_calendar_heatmap: n_papers
    counts,         \* main: counts (Counter, in insertion order)
    total,          \* main: total
    table_rows,     \* render_table_md: the sorted items
    table_md,       \* main: table_md
    limit,          \* make_recent_list_md: limit
    recent_sel,     \* make_recent_list_md: s[:limit]
    recent_md,      \* main: recent_md
    readme,         \* contents of README.md
    readme0,        \* contents of README.md when the current run started
    prev_readme,    \* contents of README.md when the previous run ended
    runs,           \* number of runs of main started
    load,           \* what reading data/papers.yml gives: "ok" or the failure
    items,          \* validate_papers.main: items
    idx,            \* validate_papers.main: number of items examined
    errors,         \* validate_papers.main: errors
    warnings,       \* number of warn() calls
    seen_link,      \* validate_papers.main: seen_link
    seen_title_date,\* validate_papers.main: seen_title_date
    exit_code,      \* value returned by validate_papers.main, -1 while running
    cm_value,       \* custom_cmap: the argument of a call
    cm_face         \* custom_cmap: what the call returned, "" before it

vars == <<pc, env, zoneinfo, now, papers, today, start, per_day, grid_start,
          data, in_range_mask, week_starts, n_papers, counts, total,
          table_rows,
          table_md, limit, recent_sel, recent_md, readme, readme0,
          prev_readme, runs, load, items, idx, errors, warnings, seen_link,
          seen_title_date, exit_code, cm_value, cm_face>>

inVars == <<env, zoneinfo, now, papers, limit>>
heatVars == <<today, start, per_day, grid_start, data, in_range_mask,
              week_starts, n_papers>>
aggVars == <<counts, total, table_rows, table_md, recent_sel, recent_md>>
docVars == <<readme, readme0, prev_readme, runs>>
valVars == <<load, items, idx, errors, warnings, seen_link, seen_title_date,
             exit_code>>
cmVars == <<cm_value, cm_face>>

-----------------------------------------------------------------------------
(* Python built-ins on str and int                                         *)

Min(a, b) == IF a <= b THEN a ELSE b
Max(a, b) == IF a >= b THEN a ELSE b

\* s[a:b] for 0 <= a, b (Python clips both ends to len(s))
Slice(s, a, b) == SubSeq(s, Min(a, Len(s)) + 1, Min(b, Len(s)))

\* s[:k], a negative k counting from the end
PyPrefix(s, k) == Slice(s, 0, IF k < 0 THEN Max(Len(s) + k, 0) ELSE k)

\* s[k:], a negative k counting from the end
PySuffix(s, k) == Slice(s, IF k < 0 THEN Max(Len(s) + k, 0) ELSE k, Len(s))

\* s.find(sub): the lowest 0-based index where sub occurs in s, else -1
Find(s, sub) ==
    LET hits == {i \in 0..(Len(s) - Len(sub)) : Slice(s, i, i + Len(sub)) = sub}
    IN  IF hits = {} THEN -1 ELSE CHOOSE i \in hits : \A j \in hits : i <= j

\* 1-based position of the one-character string c in alphabet, 0 if absent
IndexIn(alphabet, c) ==
    LET hits == {i \in 1..Len(alphabet) : SubSeq(alphabet, i, i) = c}
    IN  IF hits = {} THEN 0 ELSE CHOOSE i \in hits : TRUE

Digits == "0123456789"
Upper == "ABCDEFGHIJKLMNOPQRSTUVWXYZ"
Lower == "abcdefghijklmnopqrstuvwxyz"

\* ord(c) for the characters that occur in the modelled names
Ord(c) ==
    IF IndexIn(Digits, c) > 0 THEN 47 + IndexIn(Digits, c)
    ELSE IF IndexIn(Upper, c) > 0 THEN 64 + IndexIn(Upper, c)
    ELSE IF IndexIn(Lower, c) > 0 THEN 96 + IndexIn(Lower, c)
    ELSE IF c = " " THEN 32
    ELSE IF c = "-" THEN 45
    ELSE IF c = "/" THEN 47
    ELSE 63

\* the code points of s
CodePoints(s) == [i \in 1..Len(s) |-> Ord(SubSeq(s, i, i))]

\* the code points of s.lower()
LowerCodePoints(s) ==
    [i \in 1..Len(s) |->
        LET c == Ord(SubSeq(s, i, i))
        IN  IF c >= 65 /\ c <= 90 THEN c + 32 ELSE c]

\* a < b for sequences of code points, as Python orders str
RECURSIVE SeqLess(_, _)
SeqLess(a, b) ==
    IF b = <<>> THEN FALSE
    ELSE IF a = <<>> THEN TRUE
    ELSE IF Head(a) # Head(b) THEN Head(a) < Head(b)
    ELSE SeqLess(Tail(a), Tail(b))

\* dict.get(key, default)
Get(d, key, default) == IF key \in DOMAIN d THEN d[key] ELSE default

-----------------------------------------------------------------------------
(* datetime.date                                                           *)

IsLeap(y) == y % 4 = 0 /\ (y % 100 # 0 \/ y % 400 = 0)

DaysInMonth(y, m) ==
    IF m = 2 THEN (IF IsLeap(y) THEN 29 ELSE 28)
    ELSE IF m \in {4, 6, 9, 11} THEN 30 ELSE 31

DaysBeforeYear(y) ==
    (y - 1) * 365 + ((y - 1) \div 4) - ((y - 1) \div 100) + ((y - 1) \div 400)

RECURSIVE DaysBeforeMonth(_, _)
DaysBeforeMonth(y, m) ==
    IF m = 1 THEN 0 ELSE DaysBeforeMonth(y, m - 1) + DaysInMonth(y, m - 1)

\* date(y, m, d).toordinal()
ToOrdinal(y, m, d) == DaysBeforeYear(y) + DaysBeforeMonth(y, m) + d

\* date.min.toordinal()
DateMin == ToOrdinal(1, 1, 1)

\* date.weekday() of the date with ordinal n: 0 = Monday ... 6 = Sunday
Weekday(n) == (n + 6) % 7

\* the value of a string of decimal digits, -1 if some character is no digit
RECURSIVE ParseDigits(_)
ParseDigits(s) ==
    IF Len(s) = 0 THEN 0
    ELSE LET d == IndexIn(Digits, SubSeq(s, Len(s), Len(s))) - 1
             r == ParseDigits(SubSeq(s, 1, Len(s) - 1))
         IN  IF d < 0 \/ r < 0 THEN -1 ELSE 10 * r + d

\* datetime.date.fromisoformat(s) on a str in the form YYYY-MM-DD:
\* [ok |-> TRUE, ord |-> ordinal] or, where it raises, [ok |-> FALSE, ord |-> 0]
FromIsoFormat(s) ==
    LET y == ParseDigits(Slice(s, 0, 4))
        m == ParseDigits(Slice(s, 5, 7))
        d == ParseDigits(Slice(s, 8, 10))
        wellFormed ==
            /\ Len(s) = 10
            /\ Slice(s, 4, 5) = "-"
            /\ Slice(s, 7, 8) = "-"
            /\ y >= 1
            /\ m >= 1 /\ m <= 12
            /\ d >= 1 /\ d <= DaysInMonth(y, m)
    IN  IF wellFormed THEN [ok |-> TRUE, ord |-> ToOrdinal(y, m, d)]
        ELSE [ok |-> FALSE, ord |-> 0]

\* parse_date(date_str): [ok |-> FALSE, ...] stands for None
parse_date(date_str) == FromIsoFormat(date_str)

-----------------------------------------------------------------------------
(* today_in_tz                                                             *)

\* UTC offset in hours of the zones of the time zone database the model
\* knows; ZoneInfo(name) raises for every other name
ZoneOffsets ==
    [z \in {"Asia/Tokyo", "America/Los_Angeles", "UTC"} |->
        CASE z = "Asia/Tokyo" -> 9
          [] z = "America/Los_Angeles" -> -8
          [] z = "UTC" -> 0]

ZoneInfoOk(tz_name) == tz_name \in DOMAIN ZoneOffsets

\* the calendar date at instant t at the given offset from UTC
DateAt(t, offset) ==
    IF t.hour + offset >= 24 THEN t.day + 1
    ELSE IF t.hour + offset < 0 THEN t.day - 1
    ELSE t.day

TzNameAmbientFirst(e) ==
    IF "TZ" \in DOMAIN e /\ e["TZ"] # ""
    THEN [set |-> TRUE, val |-> e["TZ"]]
    ELSE IF "PAPERS_TZ" \in DOMAIN e
    THEN [set |-> TRUE, val |-> e["PAPERS_TZ"]]
    ELSE [set |-> FALSE, val |-> ""]

\* os.environ.get("PAPERS_TZ") or os.environ.get("TZ"): None and "" are both
\* falsy, [set |-> FALSE] stands for None
TzName(e) ==
    IF "PAPERS_TZ" \in DOMAIN e /\ e["PAPERS_TZ"] # ""
    THEN [set |-> TRUE, val |-> e["PAPERS_TZ"]]
    ELSE IF "TZ" \in DOMAIN e
    THEN [set |-> TRUE, val |-> e["TZ"]]
    ELSE [set |-> FALSE, val |-> ""]

\* does today_in_tz return from inside the try block (line 40)?
UsesZone(e, zi) ==
    LET tz_name == TzName(e)
    IN  tz_name.set /\ tz_name.val # "" /\ zi /\ ZoneInfoOk(tz_name.val)

\* today_in_tz(): the date in the named zone, or datetime.date.today(), the
\* date at the offset the platform holds to be local
today_in_tz(e, zi, t) ==
    IF UsesZone(e, zi)
    THEN DateAt(t, ZoneOffsets[TzName(e).val])
    ELSE DateAt(t, t.local)

-----------------------------------------------------------------------------
(* custom_cmap                                                             *)

NoMatchColour == "#ffffff"

Palette == <<"#888888", "#1c526b", "#177b90", "#12a5b5", "#0dceda", "#08f7fe">>

\* int(max(0, min(value, 5)))
ClampLowOnly(value) == Max(0, value)
Clamp(value) == Max(0, Min(value, 5))

custom_cmap(value) ==
    LET v == Clamp(value)
    IN  IF v \in 0..5 THEN Palette[v + 1] ELSE NoMatchColour

-----------------------------------------------------------------------------
(* make_calendar_heatmap                                                   *)

WindowDays == 364
n_weeks_short == 53 - 1
n_weeks == 53
n_days == 7

Rows == 0..(n_days - 1)
Cols == 0..(n_weeks - 1)

\* a float of the data array: <<v>> for the number v, <<>> for np.nan
Num(v) == <<v>>
NaN == <<>>
IsNaN(x) == x = <<>>

\* per_day[d] += 1 on a defaultdict(int)
Incr(pd, d) ==
    [k \in DOMAIN pd \cup {d} |-> IF k = d THEN Get(pd, d, 0) + 1 ELSE pd[k]]

\* lines 142-146: the loop over papers, acc the per_day built so far
RECURSIVE CountPerDay(_, _, _, _)
CountPerDay(ps, st, td, acc) ==
    IF ps = <<>> THEN acc
    ELSE LET d == parse_date(Get(Head(ps), "date", ""))
         IN  CountPerDay(Tail(ps), st, td,
                 IF d.ok /\ st <= d.ord /\ d.ord <= td
                 THEN Incr(acc, d.ord) ELSE acc)

\* line 148
DaysToPrevSunNoShift(st) == Weekday(st) % 7
DaysToPrevSun(st) == (Weekday(st) + 1) % 7

\* line 163: start <= dd <= today
CellInRangeOpenEnd(dd, st, td) == st <= dd /\ dd < td
CellInRange(dd, st, td) == st <= dd /\ dd <= td

\* lines 157-168: week_starts, and data and in_range_mask at [dow, w]
WeekStarts(gs) == [w \in 1..n_weeks |-> gs + 7 * (w - 1)]

\* dd at [dow, w]: d is grid_start plus 7 days per week passed
CellDate(gs, dow, w) == (gs + 7 * w) + dow

DataGrid(gs, st, td, pd) ==
    [dow \in Rows |-> [w \in Cols |->
        IF CellInRange(CellDate(gs, dow, w), st, td)
        THEN Num(Get(pd, CellDate(gs, dow, w), 0))
        ELSE NaN]]

MaskGrid(gs, st, td) ==
    [dow \in Rows |-> [w \in Cols |->
        CellInRange(CellDate(gs, dow, w), st, td)]]

\* sum(per_day.values())
RECURSIVE SumValues(_)
SumValues(pd) ==
    IF DOMAIN pd = {} THEN 0
    ELSE LET k == CHOOSE k \in DOMAIN pd : TRUE
         IN  pd[k] + SumValues([j \in DOMAIN pd \ {k} |-> pd[j]])

\* lines 139-146
HeatCount ==
    /\ pc = "heat"
    /\ today' = today_in_tz(env, zoneinfo, now)
    /\ start' = today' - WindowDays
    /\ per_day' = CountPerDay(papers, start', today', <<>>)
    /\ pc' = "counted"
    /\ UNCHANGED <<inVars, grid_start, data, in_range_mask, week_starts,
                   n_papers, aggVars, docVars, valVars, cmVars>>

\* lines 148-168
HeatGrid ==
    /\ pc = "counted"
    /\ grid_start' = start - DaysToPrevSun(start)
    /\ week_starts' = WeekStarts(grid_start')
    /\ data' = DataGrid(grid_start', start, today, per_day)
    /\ in_range_mask' = MaskGrid(grid_start', start, today)
    /\ pc' = "grid"
    /\ UNCHANGED <<inVars, today, start, per_day, n_papers, aggVars, docVars,
                   valVars, cmVars>>

\* line 263: the number in the title
HeatTitle ==
    /\ pc = "grid"
    /\ n_papers' = SumValues(per_day)
    /\ pc' = "titled"
    /\ UNCHANGED <<inVars, today, start, per_day, grid_start, data,
                   in_range_mask, week_starts, aggVars, docVars, valVars,
                   cmVars>>

-----------------------------------------------------------------------------
(* main: Counter, render_table_md, make_recent_list_md                     *)

\* "\n".join(lines)
RECURSIVE Join(_)
Join(lines) ==
    IF lines = <<>> THEN ""
    ELSE IF Len(lines) = 1 THEN lines[1]
    ELSE lines[1] \o "\n" \o Join(Tail(lines))

\* line 345: Counter([...]) as the sequence of its items, a key entering at
\* its first occurrence; acc the items counted so far
RECURSIVE Tally(_, _)
Tally(keys, acc) ==
    IF keys = <<>> THEN acc
    ELSE LET k == Head(keys)
             at == {i \in 1..Len(acc) : acc[i][1] = k}
         IN  Tally(Tail(keys),
                 IF at = {} THEN Append(acc, <<k, 1>>)
                 ELSE [i \in 1..Len(acc) |->
                          IF i \in at THEN <<k, acc[i][2] + 1>> ELSE acc[i]])

Categories(ps) == [i \in 1..Len(ps) |-> Get(ps[i], "category", "Unknown")]

\* sum(counts.values())
RECURSIVE SumCounts(_)
SumCounts(cs) == IF cs = <<>> THEN 0 ELSE Head(cs)[2] + SumCounts(Tail(cs))

\* line 295: is the key (-kv[1], kv[0].lower()) of item a less than that of b?
TableKeyLessExact(a, b) ==
    \/ -a[2] < -b[2]
    \/ a[2] = b[2] /\ SeqLess(CodePoints(a[1]), CodePoints(b[1]))
TableKeyLess(a, b) ==
    \/ -a[2] < -b[2]
    \/ a[2] = b[2] /\ SeqLess(LowerCodePoints(a[1]), LowerCodePoints(b[1]))

\* sorted(): x enters a sorted list behind every item that is not greater
RECURSIVE TableInsert(_, _)
TableInsert(x, sorted) ==
    IF sorted = <<>> THEN <<x>>
    ELSE IF TableKeyLess(x, Head(sorted)) THEN <<x>> \o sorted
    ELSE <<Head(sorted)>> \o TableInsert(x, Tail(sorted))

RECURSIVE TableSort(_, _)
TableSort(its, acc) ==
    IF its = <<>> THEN acc ELSE TableSort(Tail(its), TableInsert(Head(its), acc))

\* render_table_md(counts, total)
render_table_md(cs, tot) ==
    LET rows == TableSort(cs, <<>>)
    IN  Join(<<"\n**Breakdown**", "", "| Category | Count |", "|---|---|">>
             \o [i \in 1..Len(rows) |->
                    "| " \o rows[i][1] \o " | " \o ToString(rows[i][2]) \o " |"]
             \o <<"| **Total** | **" \o ToString(tot) \o "** |">>)

\* pd(d) of make_recent_list_md, on p.get("date", "")
RecentKey(p) ==
    LET d == FromIsoFormat(Get(p, "date", ""))
    IN  IF d.ok THEN d.ord ELSE DateMin

\* sorted(..., reverse=True): p enters a list sorted downwards behind every
\* entry whose key is not less (equal keys keep their order)
RECURSIVE RecentInsertAheadOfTies(_, _)
RecentInsertAheadOfTies(p, sorted) ==
    IF sorted = <<>> THEN <<p>>
    ELSE IF RecentKey(p) >= RecentKey(Head(sorted)) THEN <<p>> \o sorted
    ELSE <<Head(sorted)>> \o RecentInsertAheadOfTies(p, Tail(sorted))

RECURSIVE RecentInsert(_, _)
RecentInsert(p, sorted) ==
    IF sorted = <<>> THEN <<p>>
    ELSE IF RecentKey(p) > RecentKey(Head(sorted)) THEN <<p>> \o sorted
    ELSE <<Head(sorted)>> \o RecentInsert(p, Tail(sorted))

RECURSIVE RecentSort(_, _)
RecentSort(ps, acc) ==
    IF ps = <<>> THEN acc
    ELSE RecentSort(Tail(ps), RecentInsert(Head(ps), acc))

\* the dash of the list items, U+2014 in the source
EmDash == "--"

\* lines 311-319: the item of one entry
RecentItem(p) ==
    LET t == Get(p, "title", "(no title)")
        c == Get(p, "category", "-")
        d == Get(p, "date", "")
        link == Get(p, "link", "")
    IN  IF link # ""
        THEN "- [" \o t \o "](" \o link \o ") " \o EmDash \o " *" \o c
                   \o "* (" \o d \o ")"
        ELSE "- " \o t \o " " \o EmDash \o " *" \o c \o "* (" \o d \o ")"

\* make_recent_list_md(papers, limit) for limit >= 0
make_recent_list_md(sel) ==
    IF sel = <<>> THEN ""
    ELSE Join(<<"\n**Recently read**", "">>
              \o [i \in 1..Len(sel) |-> RecentItem(sel[i])])

\* lines 344-346
Categorize ==
    /\ pc = "main"
    /\ counts' = Tally(Categories(papers), <<>>)
    /\ total' = SumCounts(counts')
    /\ pc' = "counts"
    /\ UNCHANGED <<inVars, heatVars, table_rows, table_md, recent_sel,
                   recent_md, docVars, valVars, cmVars>>

\* line 355
RenderTable ==
    /\ pc = "counts"
    /\ table_rows' = TableSort(counts, <<>>)
    /\ table_md' = render_table_md(counts, total)
    /\ pc' = "table"
    /\ UNCHANGED <<inVars, heatVars, counts, total, recent_sel, recent_md,
                   docVars, valVars, cmVars>>

\* line 356
MakeRecent ==
    /\ pc = "table"
    /\ recent_sel' = PyPrefix(RecentSort(papers, <<>>), limit)
    /\ recent_md' = make_recent_list_md(recent_sel')
    /\ pc' = "recent"
    /\ UNCHANGED <<inVars, heatVars, counts, total, table_rows, table_md,
                   docVars, valVars, cmVars>>

-----------------------------------------------------------------------------
(* update_readme                                                           *)

MaxRuns == 2

MARK_START == "<!--CHART_START-->"
MARK_END == "<!--CHART_END-->"

BarSvg == "assets/category_stylish.svg"
HeatSvg == "assets/activity_heatmap.svg"

\* line 327: the condition of the raise
MarkersMissingStartOnly(st, en) == st = -1
MarkersMissing(st, en) == st = -1 \/ en = -1 \/ en < st

\* lines 329-338
InsertMd(chart1_rel, chart2_rel, tbl, rec) ==
    Join(<<"![By category](" \o chart1_rel \o ")", "",
           "![Activity heatmap](" \o chart2_rel \o ")", "", tbl, rec>>)

\* line 339
NewMd(md, st, en, ins) ==
    PyPrefix(md, st + Len(MARK_START)) \o "\n" \o ins \o "\n" \o PySuffix(md, en)

\* lines 358-360, update_readme raising at line 328: README.md is not written
UpdateReadmeRaise ==
    /\ pc = "recent"
    /\ MarkersMissing(Find(readme, MARK_START), Find(readme, MARK_END))
    /\ pc' = "failed"
    /\ UNCHANGED <<inVars, heatVars, aggVars, docVars, valVars, cmVars>>

\* lines 358-360, update_readme writing README.md at line 340
UpdateReadmeWrite ==
    /\ pc = "recent"
    /\ ~MarkersMissing(Find(readme, MARK_START), Find(readme, MARK_END))
    /\ readme' = NewMd(readme, Find(readme, MARK_START), Find(readme, MARK_END),
                       InsertMd(BarSvg, HeatSvg, table_md, recent_md))
    /\ pc' = "done"
    /\ UNCHANGED <<inVars, heatVars, aggVars, readme0, prev_readme, runs,
                   valVars, cmVars>>

\* the script is run again on the same data/papers.yml and the README.md the
\* run before left
RunAgain ==
    /\ pc \in {"done", "failed"}
    /\ runs < MaxRuns
    /\ runs' = runs + 1
    /\ prev_readme' = readme
    /\ readme0' = readme
    /\ counts' = <<>> /\ total' = 0 /\ table_rows' = <<>> /\ table_md' = ""
    /\ recent_sel' = <<>> /\ recent_md' = ""
    /\ pc' = "main"
    /\ UNCHANGED <<inVars, heatVars, readme, valVars, cmVars>>

-----------------------------------------------------------------------------
(* validate_papers.main                                                    *)

\* A YAML value is [t |-> "str", s |-> text] or, for an integer,
\* [t |-> "int", s |-> its digits]; an item is [dict |-> TRUE, f |-> the
\* mapping] or, for a value that is no mapping, [dict |-> FALSE, f |-> <<>>].
YStr(text) == [t |-> "str", s |-> text]
YInt(digits) == [t |-> "int", s |-> digits]

\* isinstance(obj.get(key), str)
IsStr(obj, key) == key \in DOMAIN obj /\ obj[key].t = "str"

\* bool(obj.get(key)): None, "" and 0 are falsy
Truthy(obj, key) ==
    key \in DOMAIN obj /\ obj[key].s # "" /\ obj[key] # YInt("0")

\* s.strip() == "": s holds white space only
RECURSIVE IsBlank(_)
IsBlank(text) ==
    \/ Len(text) = 0
    \/ /\ SubSeq(text, 1, 1) \in {" ", "\t", "\n"}
       /\ IsBlank(SubSeq(text, 2, Len(text)))

\* is_iso_date(s)
is_iso_date(text) == FromIsoFormat(text).ok

\* is_url(s): re.match(r"^https?://", s or "")
is_url(text) == Slice(text, 0, 7) = "http://" \/ Slice(text, 0, 8) = "https://"

allowed_keys == {"title", "category", "date", "link", "note"}

B2N(b) == IF b THEN 1 ELSE 0

\* lines 66-77 and 90-93: the number of error() calls for the mapping obj
MappingErrors(obj) ==
      B2N(~IsStr(obj, "title") \/ IsBlank(obj["title"].s))
    + B2N(~IsStr(obj, "category") \/ IsBlank(obj["category"].s))
    + B2N(~IsStr(obj, "date") \/ ~is_iso_date(obj["date"].s))
    + B2N(~IsStr(obj, "link") \/ ~is_url(obj["link"].s))
    + B2N("note" \in DOMAIN obj /\ obj["note"].t # "str")

\* line 84: key = (title or "", date or "")
TitleDateKey(obj) ==
    <<IF Truthy(obj, "title") THEN obj["title"] ELSE YStr(""),
      IF Truthy(obj, "date") THEN obj["date"] ELSE YStr("")>>

\* lines 57-59 and 80-88: the number of warn() calls for the mapping obj
MappingWarnings(obj, links, keys) ==
      B2N(DOMAIN obj \ allowed_keys # {})
    + B2N(IsStr(obj, "link") /\ obj["link"].s # "" /\ obj["link"].s \in links)
    + B2N(Truthy(obj, "title") /\ Truthy(obj, "date")
              /\ TitleDateKey(obj) \in keys)

\* line 51: the loop goes on while items are left
MoreItemsWhileClean(i, n, errs) == i < n /\ errs = 0
MoreItems(i, n, errs) == i < n

\* lines 33-44: data/papers.yml is missing, is no YAML, or is no list
ValidateLoadFail ==
    /\ pc = "validate"
    /\ load # "ok"
    /\ exit_code' = 1
    /\ pc' = "exit"
    /\ UNCHANGED <<inVars, heatVars, aggVars, docVars, load, items, idx, errors,
                   warnings, seen_link, seen_title_date, cmVars>>

\* lines 33-49
ValidateLoad ==
    /\ pc = "validate"
    /\ load = "ok"
    /\ errors' = 0 /\ seen_link' = {} /\ seen_title_date' = {}
    /\ pc' = "loop"
    /\ UNCHANGED <<inVars, heatVars, aggVars, docVars, load, items, idx,
                   warnings, exit_code, cmVars>>

\* lines 51-93: one pass of the loop, on items[idx + 1]
ValidateItem ==
    /\ pc = "loop"
    /\ MoreItems(idx, Len(items), errors)
    /\ LET item == items[idx + 1]
           obj == item.f
       IN  IF ~item.dict
           THEN /\ errors' = errors + 1
                /\ UNCHANGED <<warnings, seen_link, seen_title_date>>
           ELSE /\ errors' = errors + MappingErrors(obj)
                /\ warnings' = warnings
                       + MappingWarnings(obj, seen_link, seen_title_date)
                /\ seen_link' =
                       IF IsStr(obj, "link") /\ obj["link"].s # ""
                       THEN seen_link \cup {obj["link"].s} ELSE seen_link
                /\ seen_title_date' =
                       IF Truthy(obj, "title") /\ Truthy(obj, "date")
                       THEN seen_title_date \cup {TitleDateKey(obj)}
                       ELSE seen_title_date
    /\ idx' = idx + 1
    /\ UNCHANGED <<pc, inVars, heatVars, aggVars, docVars, load, items,
                   exit_code, cmVars>>

\* lines 95-99
ValidateFinish ==
    /\ pc = "loop"
    /\ ~MoreItems(idx, Len(items), errors)
    /\ exit_code' = IF errors # 0 THEN 1 ELSE 0
    /\ pc' = "exit"
    /\ UNCHANGED <<inVars, heatVars, aggVars, docVars, load, items, idx, errors,
                   warnings, seen_link, seen_title_date, cmVars>>

-----------------------------------------------------------------------------
(* The states before a script has run                                      *)

NumDays == 7
MaxPapers == 3
MaxCount == 60

FirstDay == ToOrdinal(2024, 12, 30)

NoHeat ==
    /\ today = 0 /\ start = 0 /\ per_day = <<>> /\ grid_start = 0
    /\ data = <<>> /\ in_range_mask = <<>> /\ week_starts = <<>>
    /\ n_papers = 0

NoAgg ==
    /\ counts = <<>> /\ total = 0 /\ table_rows = <<>> /\ table_md = ""
    /\ recent_sel = <<>> /\ recent_md = ""

NoDoc == readme = "" /\ readme0 = "" /\ prev_readme = "" /\ runs = 0

NoVal ==
    /\ load = "ok" /\ items = <<>> /\ idx = 0 /\ errors = 0 /\ warnings = 0
    /\ seen_link = {} /\ seen_title_date = {} /\ exit_code = -1

NoCm == cm_value = 0 /\ cm_face = ""

\* the sequences over S of length at most n
SeqsUpTo(S, n) == UNION {[1..k -> S] : k \in 0..n}

\* os.environ: each of the two variables unset, empty, a zone or no zone
TzValues == {"", "Asia/Tokyo", "America/Los_Angeles", "Mars/Olympus"}
Envs == UNION {[D -> TzValues] : D \in SUBSET {"PAPERS_TZ", "TZ"}}

Clocks ==
    [day : FirstDay..(FirstDay + NumDays - 1), hour : {3, 20}, local : {0, -8}]

-----------------------------------------------------------------------------
(* SpecTz: one call of today_in_tz                                         *)

TodayInTz ==
    /\ pc = "tz"
    /\ today' = today_in_tz(env, zoneinfo, now)
    /\ pc' = "tz_done"
    /\ UNCHANGED <<inVars, start, per_day, grid_start, data, in_range_mask,
                   week_starts, n_papers, aggVars, docVars, valVars, cmVars>>

InitTz ==
    /\ pc = "tz"
    /\ env \in Envs
    /\ zoneinfo \in BOOLEAN
    /\ now \in Clocks
    /\ papers = <<>> /\ limit = 0
    /\ NoHeat /\ NoAgg /\ NoDoc /\ NoVal /\ NoCm

NextTz == TodayInTz

SpecTz == InitTz /\ [][NextTz]_vars

-----------------------------------------------------------------------------
(* SpecCmap: one call of custom_cmap                                       *)

ApplyCmap ==
    /\ pc = "cmap"
    /\ cm_face' = custom_cmap(cm_value)
    /\ pc' = "cmap_done"
    /\ UNCHANGED <<inVars, heatVars, aggVars, docVars, valVars, cm_value>>

InitCmap ==
    /\ pc = "cmap"
    /\ cm_value \in ((-MaxCount)..MaxCount) \cup {1000}
    /\ cm_face = ""
    /\ env = <<>> /\ zoneinfo = TRUE /\ now = [day |-> FirstDay, hour |-> 0, local |-> 0]
    /\ papers = <<>> /\ limit = 0
    /\ NoHeat /\ NoAgg /\ NoDoc /\ NoVal

NextCmap == ApplyCmap

SpecCmap == InitCmap /\ [][NextCmap]_vars

-----------------------------------------------------------------------------
(* SpecHeat: make_calendar_heatmap                                         *)

\* the dates of the entries: the first day of the earliest window (a day
\* before the later ones), a day inside every window, the last day of the
\* earliest window, a day past the earlier windows, no ISO date, and no date
HeatDates ==
    {"2024-01-01", "2024-06-15", "2024-12-30", "2025-01-03", "2024-13-40"}
HeatPapers == {[date |-> d] : d \in HeatDates} \cup {[title |-> "T"]}

InitHeat ==
    /\ pc = "heat"
    /\ env = [PAPERS_TZ |-> "Asia/Tokyo"]
    /\ zoneinfo = TRUE
    /\ now \in {t \in Clocks : t.hour = 3 /\ t.local = 0}
    /\ papers \in SeqsUpTo(HeatPapers, MaxPapers)
    /\ limit = 0
    /\ NoHeat /\ NoAgg /\ NoDoc /\ NoVal /\ NoCm

NextHeat == HeatCount \/ HeatGrid \/ HeatTitle

SpecHeat == InitHeat /\ [][NextHeat]_vars

-----------------------------------------------------------------------------
(* Claims about today_in_tz, custom_cmap and make_calendar_heatmap         *)

GridBuilt == pc \in {"grid", "titled"}

\* the entries whose date parses and lies in [start, today]
InWindowEntries ==
    {i \in 1..Len(papers) :
        LET d == FromIsoFormat(Get(papers[i], "date", ""))
        IN  d.ok /\ start <= d.ord /\ d.ord <= today}

\* the parsed dates of the entries, 0 where the date does not parse (no
\* date has ordinal 0)
EntryOrdinals ==
    [i \in 1..Len(papers) |->
        LET d == FromIsoFormat(Get(papers[i], "date", ""))
        IN  IF d.ok THEN d.ord ELSE 0]

\* the number of entries of ords dated dd
CountOn(ords, dd) == Cardinality({i \in DOMAIN ords : ords[i] = dd})

\* the sum of the counts of the cells of columns 0..w of one row that the
\* mask marks in range
RECURSIVE RowSum(_, _)
RowSum(dow, w) ==
    IF w < 0 THEN 0
    ELSE RowSum(dow, w - 1)
         + (IF in_range_mask[dow][w] THEN data[dow][w][1] ELSE 0)

RECURSIVE GridSum(_)
GridSum(dow) ==
    IF dow < 0 THEN 0
    ELSE GridSum(dow - 1) + RowSum(dow, Len(week_starts) - 1)

\* no date is held by two cells: the columns start 7 days apart
ColumnsApart ==
    \A w \in 1..(Len(week_starts) - 1) : week_starts[w + 1] = week_starts[w] + 7

\* the date with ordinal dd is held by a cell: the one at dd's offset from
\* the date of the first cell
InACell(dd) ==
    LET off == dd - week_starts[1]
    IN  /\ off >= 0 /\ off < 7 * Len(week_starts)
        /\ week_starts[(off \div 7) + 1] + (off % 7) = dd
        /\ (off % 7) \in DOMAIN data
        /\ (off \div 7) \in DOMAIN data[off % 7]

\* C1: count conservation. Once the grid is built, the counts of its in-range
\* cells add up to the number of entries dated within [start, today], every
\* date of the window is held by exactly one cell, and the number in the
\* title is the same.
C1_CountConservation ==
    GridBuilt =>
        /\ GridSum(6) = Cardinality(InWindowEntries)
        /\ ColumnsApart
        /\ \A dd \in start..today : InACell(dd)
        /\ (pc = "titled" => n_papers = Cardinality(InWindowEntries))

\* C1 witness: the window starts on a Saturday, so that its last days lie in
\* column 52; two entries are counted in one cell of that column and a third
\* entry lies outside the window.
C1_Witness ==
    /\ pc = "titled"
    /\ Weekday(start) = 5
    /\ \E dow \in 0..6 : in_range_mask[dow][52] /\ data[dow][52] = Num(2)
    /\ Cardinality(InWindowEntries) = 2
    /\ Len(papers) = 3
    /\ n_papers = 2

\* C2: range mask exactness. A cell is marked in range exactly when its date
\* grid_start + 7 w + dow lies in [start, today]; an in-range cell holds the
\* number of entries of that day, every other cell holds NaN, which is not 0.
C2_RangeMaskExact ==
    GridBuilt =>
        LET ords == EntryOrdinals
        IN  \A dow \in 0..6, w \in 0..52 :
                LET dd == grid_start + (7 * w + dow)
                    inside == start <= dd /\ dd <= today
                IN  /\ in_range_mask[dow][w] = inside
                    /\ inside => data[dow][w] = Num(CountOn(ords, dd))
                    /\ ~inside => IsNaN(data[dow][w]) /\ data[dow][w] # Num(0)

\* C2 witness: a cell outside the window whose date has an entry, an in-range
\* cell without entries and an in-range cell with one.
C2_Witness ==
    /\ pc = "grid"
    /\ \E dow \in 0..6, w \in 0..52 :
          /\ ~in_range_mask[dow][w]
          /\ CountOn(EntryOrdinals, grid_start + (7 * w + dow)) > 0
    /\ \E dow \in 0..6, w \in 0..52 : data[dow][w] = Num(0)
    /\ \E dow \in 0..6, w \in 0..52 : data[dow][w] = Num(1)

\* C3: alignment. grid_start is start minus ((weekday + 1) mod 7) days, a
\* Sunday at most 6 days before start, and the cell of column 0 in the row of
\* start's day of the week (0 = Sunday) has date start and is in range.
C3_Alignment ==
    GridBuilt =>
        LET row == (Weekday(start) + 1) % 7
        IN  /\ grid_start = start - row
            /\ Weekday(grid_start) = 6
            /\ 0 <= start - grid_start /\ start - grid_start <= 6
            /\ week_starts[1] + row = start
            /\ in_range_mask[row][0]

\* C3 witness: a window that starts on a Saturday, the last row of column 0.
C3_Witness ==
    /\ pc = "grid"
    /\ start - grid_start = 6
    /\ in_range_mask[6][0] /\ ~in_range_mask[5][0]

\* C4 as claimed: the chain PAPERS_TZ, TZ, process-local date, an invalid
\* name falling through to the next option: with zoneinfo available the date
\* is the one in PAPERS_TZ if that names a zone, else the one in TZ if that
\* names a zone, else the process-local date.
C4_FallsThroughToNext ==
    (pc = "tz_done" /\ zoneinfo) =>
        LET p == Get(env, "PAPERS_TZ", "")
            t == Get(env, "TZ", "")
        IN  today = IF p \in DOMAIN ZoneOffsets THEN DateAt(now, ZoneOffsets[p])
                    ELSE IF t \in DOMAIN ZoneOffsets
                    THEN DateAt(now, ZoneOffsets[t])
                    ELSE DateAt(now, now.local)

\* C4 amended: one name is tried, PAPERS_TZ if it is set and not empty and
\* otherwise TZ; the date is taken in that zone if zoneinfo is available and
\* the name is a zone, and is the process-local date in every other case.
C4_SingleNameThenLocal ==
    pc = "tz_done" =>
        LET p == Get(env, "PAPERS_TZ", "")
            t == Get(env, "TZ", "")
            name == IF p # "" THEN p ELSE t
        IN  today = IF zoneinfo /\ name \in DOMAIN ZoneOffsets
                    THEN DateAt(now, ZoneOffsets[name])
                    ELSE DateAt(now, now.local)

\* C4 witness: PAPERS_TZ names no zone, TZ names one, and the date returned
\* is the process-local one, a day before the date in the TZ zone.
C4_Witness ==
    /\ pc = "tz_done"
    /\ zoneinfo
    /\ Get(env, "PAPERS_TZ", "") = "Mars/Olympus"
    /\ Get(env, "TZ", "") = "Asia/Tokyo"
    /\ today = DateAt(now, now.local)
    /\ today + 1 = DateAt(now, ZoneOffsets["Asia/Tokyo"])

\* C5: bucket saturation. custom_cmap returns palette entry
\* min(max(count, 0), 5), never the colour of the default case; counts of 5 or
\* more get entry 5, counts of 0 or less get entry 0.
C5_BucketSaturation ==
    pc = "cmap_done" =>
        /\ cm_face = Palette[Min(Max(cm_value, 0), 5) + 1]
        /\ cm_face # NoMatchColour
        /\ (cm_value >= 5 => cm_face = "#08f7fe")
        /\ (cm_value <= 0 => cm_face = "#888888")

\* C5 witness: a count above 5 was mapped to the last palette entry.
C5_Witness == pc = "cmap_done" /\ cm_value = 1000 /\ cm_face = Palette[6]

-----------------------------------------------------------------------------
(* SpecAgg: the table and the recent list of main                          *)

MaxLimit == 3
RecentLimit == 10

\* entries with categories that differ in case only, categories that order
\* differently with and without case, no category, equal dates, no date, no
\* ISO date, and the date that is date.min
AggPapers ==
    {[title |-> "A", category |-> "ML", date |-> "2024-01-01", link |-> "http://a"],
     [title |-> "B", category |-> "ml", date |-> "2024-03-01", link |-> "http://b"],
     [title |-> "C", category |-> "NLP", date |-> "2024-02-01", link |-> ""],
     [title |-> "D", category |-> "cv", date |-> "0001-01-01", link |-> "http://d"],
     [title |-> "E", link |-> "http://e"],
     [title |-> "F", category |-> "NLP", date |-> "2024-13-40"],
     [title |-> "G", category |-> "cv", date |-> "2024-03-01", link |-> "http://g"]}

InitAgg ==
    /\ pc = "main"
    /\ papers \in SeqsUpTo(AggPapers, MaxPapers)
    /\ limit \in 0..MaxLimit
    /\ env = <<>> /\ zoneinfo = TRUE
    /\ now = [day |-> FirstDay, hour |-> 0, local |-> 0]
    /\ NoHeat /\ NoAgg /\ NoDoc /\ NoVal /\ NoCm

NextAgg == Categorize \/ RenderTable \/ MakeRecent

SpecAgg == InitAgg /\ [][NextAgg]_vars

-----------------------------------------------------------------------------
(* SpecPatch: main run on a README.md, and run again                       *)

MaxPieces == 3

\* README.md: up to MaxPieces pieces, each a marker or other text
Pieces == {"# Log\n", "old\n", MARK_START, MARK_END}

RECURSIVE Concat(_)
Concat(ps) == IF ps = <<>> THEN "" ELSE Head(ps) \o Concat(Tail(ps))

Readmes == {Concat(ps) : ps \in SeqsUpTo(Pieces, MaxPieces)}

\* entries whose title is plain text or one of the marker strings
PatchPapers ==
    {[title |-> "T", category |-> "ML", date |-> "2024-01-01", link |-> "http://t"],
     [title |-> MARK_END, category |-> "ML", date |-> "2024-01-01", link |-> "http://t"],
     [title |-> MARK_START, category |-> "ML", date |-> "2024-01-01"]}

InitPatch ==
    /\ pc = "main"
    /\ papers \in {<<>>} \cup {<<p>> : p \in PatchPapers}
    /\ limit = RecentLimit
    /\ readme \in Readmes
    /\ readme0 = readme
    /\ prev_readme = ""
    /\ runs = 1
    /\ env = <<>> /\ zoneinfo = TRUE
    /\ now = [day |-> FirstDay, hour |-> 0, local |-> 0]
    /\ NoHeat /\ NoAgg /\ NoVal /\ NoCm

NextPatch ==
    \/ Categorize
    \/ RenderTable
    \/ MakeRecent
    \/ UpdateReadmeRaise
    \/ UpdateReadmeWrite
    \/ RunAgain

SpecPatch == InitPatch /\ [][NextPatch]_vars

-----------------------------------------------------------------------------
(* Claims about make_recent_list_md, render_table_md and update_readme     *)

HasDate(p) == FromIsoFormat(Get(p, "date", "")).ok

\* the date an entry is sorted by: its own, or date.min if it has none
SortDate(p) == IF HasDate(p) THEN FromIsoFormat(p.date).ord ELSE DateMin

\* the number of entries that a sort by the dates keys, descending and
\* keeping the order of equal dates, puts before entry i
RankOf(keys, i) ==
    Cardinality({j \in DOMAIN keys :
        keys[j] > keys[i] \/ (keys[j] = keys[i] /\ j < i)})

\* the entries by date descending, equal dates in their original order, cut
\* to the first limit
StableRecent ==
    LET keys == [i \in 1..Len(papers) |-> SortDate(papers[i])]
    IN  [k \in 1..Min(limit, Len(papers)) |->
            papers[CHOOSE i \in 1..Len(papers) : RankOf(keys, i) = k - 1]]

RecentMade == pc \in {"recent", "done", "failed"}

\* C6 as claimed: the list is the first limit entries by date descending,
\* equal dates in original order, and no entry without a valid date stands
\* before an entry with one.
C6_UndatedNeverBeforeDated ==
    RecentMade =>
        /\ recent_sel = StableRecent
        /\ \A a, b \in 1..Len(recent_sel) :
              (a < b /\ HasDate(recent_sel[b])) => HasDate(recent_sel[a])

\* C6 amended: the list is the first limit entries by date descending, an
\* entry without a valid date sorted as date.min, equal dates in original
\* order; no entry without a valid date stands before an entry whose date is
\* later than date.min.
C6_RecencyOrdering ==
    RecentMade =>
        /\ recent_sel = StableRecent
        /\ \A a, b \in 1..Len(recent_sel) :
              (a < b /\ HasDate(recent_sel[b])
                     /\ SortDate(recent_sel[b]) > DateMin)
                  => HasDate(recent_sel[a])

\* C6 witness: three entries, the first without a date, the other two of one
\* date; a limit of 2 lists those two in their original order.
C6_Witness ==
    /\ pc = "recent"
    /\ Len(papers) = 3 /\ limit = 2
    /\ ~HasDate(papers[1])
    /\ recent_sel = <<papers[2], papers[3]>>
    /\ papers[2] # papers[3]
    /\ SortDate(papers[2]) = SortDate(papers[3])

TableMade == pc \in {"table", "recent", "done", "failed"}

\* the index in papers of the first entry of category k
FirstOf(k) ==
    CHOOSE i \in 1..Len(papers) :
        /\ Get(papers[i], "category", "Unknown") = k
        /\ \A j \in 1..(i - 1) : Get(papers[j], "category", "Unknown") # k

\* the table has one row per category, with the number of its entries
RowsAreCounts ==
    /\ {table_rows[i][1] : i \in 1..Len(table_rows)}
           = {Get(papers[i], "category", "Unknown") : i \in 1..Len(papers)}
    /\ \A i \in 1..Len(table_rows) :
          table_rows[i][2]
              = Cardinality({j \in 1..Len(papers) :
                    Get(papers[j], "category", "Unknown") = table_rows[i][1]})
    /\ \A i, j \in 1..Len(table_rows) :
          table_rows[i][1] = table_rows[j][1] => i = j

\* C7 as claimed: rows by count descending and, for equal counts, by the
\* category name ascending, the names compared as the exact strings.
C7_ExactNameOrder ==
    TableMade =>
        /\ RowsAreCounts
        /\ \A i \in 1..(Len(table_rows) - 1) :
              LET a == table_rows[i]
                  b == table_rows[i + 1]
              IN  \/ a[2] > b[2]
                  \/ a[2] = b[2] /\ SeqLess(CodePoints(a[1]), CodePoints(b[1]))

\* C7 amended: rows by count descending and, for equal counts, by the
\* lowercased category name ascending; categories whose lowercased names are
\* equal stand in the order of their first entries.
C7_LowercasedNameOrder ==
    TableMade =>
        /\ RowsAreCounts
        /\ \A i \in 1..(Len(table_rows) - 1) :
              LET a == table_rows[i]
                  b == table_rows[i + 1]
                  la == LowerCodePoints(a[1])
                  lb == LowerCodePoints(b[1])
              IN  \/ a[2] > b[2]
                  \/ a[2] = b[2] /\ SeqLess(la, lb)
                  \/ a[2] = b[2] /\ la = lb /\ FirstOf(a[1]) < FirstOf(b[1])

\* C7 witness: "NLP" entered the counter before "cv", both with one entry,
\* and the table lists "cv" first.
C7_Witness ==
    /\ pc = "table"
    /\ counts = <<(<<"NLP", 1>>), (<<"cv", 1>>)>>
    /\ table_rows = <<(<<"cv", 1>>), (<<"NLP", 1>>)>>

\* the content update_readme puts between the markers in this run
Inserted == InsertMd(BarSvg, HeatSvg, table_md, recent_md)

\* C8: if a marker is absent from README.md, update_readme raises and the
\* file is left as it was; when it writes, the text up to and including the
\* start marker and the text from the end marker on are those of the old
\* file, and the new content (between two newlines) is all that is between.
C8_AtomicInjection ==
    LET st == Find(readme0, MARK_START)
        en == Find(readme0, MARK_END)
        head == Slice(readme0, 0, st + Len(MARK_START))
        tail == Slice(readme0, en, Len(readme0))
    IN  /\ pc = "failed" => readme = readme0
        /\ (pc \in {"done", "failed"} /\ (st = -1 \/ en = -1)) => pc = "failed"
        /\ pc = "done" =>
              /\ st >= 0 /\ en >= st + Len(MARK_START)
              /\ Slice(head, st, Len(head)) = MARK_START
              /\ Slice(tail, 0, Len(MARK_END)) = MARK_END
              /\ Slice(readme, 0, Len(head)) = head
              /\ Slice(readme, Len(readme) - Len(tail), Len(readme)) = tail
              /\ readme = head \o "\n" \o Inserted \o "\n" \o tail

\* C8 witness: README.md holds the start marker and no end marker, and the
\* run failed.
C8_Witness ==
    /\ pc = "failed"
    /\ Find(readme0, MARK_START) >= 0
    /\ Find(readme0, MARK_END) = -1
    /\ readme = readme0

\* C10: a second run on the same entries leaves README.md as the first run
\* left it.
C10_Idempotent == (runs >= 2 /\ pc = "done") => readme = prev_readme

-----------------------------------------------------------------------------
(* SpecValidate: validate_papers.main                                      *)

MaxItems == 3

ValidA ==
    [title |-> YStr("A"), category |-> YStr("ML"), date |-> YStr("2024-01-01"),
     link |-> YStr("http://a")]

\* a valid entry; an entry without title; an entry with the date 2024-13-40;
\* a blank title and a link that is no http(s) URL; a note that is no
\* string, with an unknown key; an unknown key alone; a title and a date that
\* are no strings; an item that is no mapping
ValItems ==
    {[dict |-> TRUE, f |-> ValidA],
     [dict |-> TRUE, f |-> [category |-> YStr("ML"), date |-> YStr("2024-01-01"),
                            link |-> YStr("http://b")]],
     [dict |-> TRUE, f |-> [title |-> YStr("C"), category |-> YStr("NLP"),
                            date |-> YStr("2024-13-40"),
                            link |-> YStr("https://c")]],
     [dict |-> TRUE, f |-> [title |-> YStr("  "), category |-> YStr("cv"),
                            date |-> YStr("2024-02-01"),
                            link |-> YStr("ftp://d")]],
     [dict |-> TRUE, f |-> [title |-> YStr("E"), category |-> YStr("cv"),
                            date |-> YStr("2024-02-01"),
                            link |-> YStr("http://e"), note |-> YInt("5"),
                            tags |-> YStr("x")]],
     [dict |-> TRUE, f |-> [title |-> YStr("F"), category |-> YStr("cv"),
                            date |-> YStr("2024-02-02"),
                            link |-> YStr("http://f"), note |-> YStr("n"),
                            tags |-> YStr("x")]],
     [dict |-> TRUE, f |-> [title |-> YInt("7"), category |-> YStr("cv"),
                            date |-> YInt("2024"), link |-> YStr("http://a")]],
     [dict |-> FALSE, f |-> <<>>]}

InitValidate ==
    /\ pc = "validate"
    /\ \/ load = "ok" /\ items \in SeqsUpTo(ValItems, MaxItems)
       \/ load \in {"missing", "no_yaml", "no_list"} /\ items = <<>>
    /\ idx = 0 /\ errors = 0 /\ warnings = 0
    /\ seen_link = {} /\ seen_title_date = {} /\ exit_code = -1
    /\ papers = <<>> /\ limit = 0
    /\ env = <<>> /\ zoneinfo = TRUE
    /\ now = [day |-> FirstDay, hour |-> 0, local |-> 0]
    /\ NoHeat /\ NoAgg /\ NoDoc /\ NoCm

NextValidate ==
    \/ ValidateLoadFail
    \/ ValidateLoad
    \/ ValidateItem
    \/ ValidateFinish

SpecValidate == InitValidate /\ [][NextValidate]_vars

-----------------------------------------------------------------------------
(* Claims about validate_papers.main                                       *)

\* the required fields of a mapping that fail their check: title and
\* category must be strings that are not blank, date an ISO date string,
\* link a string starting with http:// or https://
FailedRequired(obj) ==
    {k \in {"title", "category", "date", "link"} :
        \/ k \notin DOMAIN obj
        \/ obj[k].t # "str"
        \/ k \in {"title", "category"} /\ IsBlank(obj[k].s)
        \/ k = "date" /\ ~FromIsoFormat(obj[k].s).ok
        \/ k = "link" /\ Find(obj[k].s, "http://") # 0
                      /\ Find(obj[k].s, "https://") # 0}

BadNote(obj) == "note" \in DOMAIN obj /\ obj["note"].t # "str"

\* the failed required-field checks of items[1..n], an item that is no
\* mapping counted once
RECURSIVE RequiredFailures(_)
RequiredFailures(n) ==
    IF n = 0 THEN 0
    ELSE RequiredFailures(n - 1)
         + (IF items[n].dict THEN Cardinality(FailedRequired(items[n].f))
            ELSE 1)

\* the notes of items[1..n] that are no strings
RECURSIVE NoteFailures(_)
NoteFailures(n) ==
    IF n = 0 THEN 0
    ELSE NoteFailures(n - 1)
         + (IF items[n].dict /\ BadNote(items[n].f) THEN 1 ELSE 0)

\* the dataset of the scenario: an entry without title, an entry dated
\* 2024-13-40, both valid otherwise
TwoErrorItems ==
    <<[dict |-> TRUE, f |-> [category |-> YStr("ML"), date |-> YStr("2024-01-01"),
                             link |-> YStr("http://b")]],
      [dict |-> TRUE, f |-> [title |-> YStr("C"), category |-> YStr("NLP"),
                             date |-> YStr("2024-13-40"),
                             link |-> YStr("https://c")]]>>

Validated == pc = "exit" /\ load = "ok"

\* C9 as claimed: every record is examined, the error count is the number of
\* failed required-field checks over all records, the exit code is non-zero
\* exactly if that count is not 0, and the scenario gives 2 errors and no
\* warning.
C9_OnlyRequiredFieldsCount ==
    Validated =>
        /\ idx = Len(items)
        /\ errors = RequiredFailures(Len(items))
        /\ (exit_code # 0) = (RequiredFailures(Len(items)) > 0)
        /\ items = TwoErrorItems =>
              errors = 2 /\ warnings = 0 /\ exit_code = 1

\* C9 amended: every record is examined, the error count is the number of
\* failed required-field checks over all records plus the number of notes
\* that are present and no strings (an item that is no mapping counts once),
\* the exit code is 1 if that count is not 0 and 0 otherwise, whatever the
\* warnings, and the scenario gives 2 errors and no warning. A dataset that
\* cannot be loaded as a list exits with 1 before any record is examined.
C9_ErrorsAccumulate ==
    /\ Validated =>
          /\ idx = Len(items)
          /\ errors = RequiredFailures(Len(items)) + NoteFailures(Len(items))
          /\ exit_code = (IF errors > 0 THEN 1 ELSE 0)
          /\ items = TwoErrorItems =>
                errors = 2 /\ warnings = 0 /\ exit_code = 1
    /\ (pc = "exit" /\ load # "ok") => (exit_code = 1 /\ idx = 0)

\* C9 witness: the scenario, validated to the end: the second record was
\* examined after the first one failed.
C9_Witness ==
    /\ Validated
    /\ items = TwoErrorItems
    /\ idx = 2 /\ errors = 2 /\ warnings = 0 /\ exit_code = 1

====
